---- MODULE Spec2Model ----
(***************************************************************************)
(* Model of the kiagnose checkup lifecycle orchestrator                    *)
(* (kiagnose/internal/checkup/checkup.go).                                 *)
(*                                                                         *)
(* One Checkup instance is driven by one caller that invokes Setup, Run,   *)
(* Results, Logs, SetTeardownTimeout and Teardown sequentially, in any     *)
(* order.  The cluster is a set of object keys; every collaborator call    *)
(* (configmap, rbac, job, results packages) has an outcome chosen by the   *)
(* environment.  Durations are integer milliseconds.  Error values are     *)
(* sequences of string tokens; the nil error is the empty sequence.        *)
(***************************************************************************)
EXTENDS Integers, Sequences, FiniteSets, TLC

VARIABLES
    cfg,        \* the checkupConfig the instance was constructed from
    run,        \* the target namespace and checkup name it was constructed from
    limit,      \* how many method invocations the caller makes at most
    c,          \* the Checkup instance
    cluster,    \* keys of the objects that exist in the cluster
    store,      \* contents of the result store and how often it was written
    created,    \* keys of the objects the instance created (history)
    hist,       \* the method invocations so far, in order (history)
    panicked,   \* the process died of a nil pointer dereference
    pc,         \* the invocation that is suspended in a wait, if any
    validation  \* the parameter map given to the validator and its result

vars == <<cfg, run, limit, c, cluster, store, created, hist, panicked, pc, validation>>

\* ------------------------------------------------------------------ bounds
\* Maximum number of method invocations on the instance in one behaviour.
MaxCalls == 3

\* ------------------------------------------------------- program constants
UIDEnvVarName == "CHECKUP_UID"

ResultsConfigMapNameEnvVarName == "RESULT_CONFIGMAP_NAME"

ResultsConfigMapNameEnvVarNamespace == "RESULT_CONFIGMAP_NAMESPACE"

\* time.Minute * 5, in milliseconds
defaultTeardownTimeout == 300000

\* --------------------------------------------------------- inputs of New()
TargetNsName == "target-ns"

CheckupName == "lat"

\* checkupConfig values the constructor is given (Timeout in milliseconds)
Configs ==
    { [UID |-> "uid-1", Image |-> "img", ServiceAccountName |-> "sa",
       Timeout |-> t, EnvVars |-> <<>>] : t \in {1500, 60000} }

\* durations a caller passes to SetTeardownTimeout (milliseconds)
Durations == {1000, 300000}

\* ------------------------------------------------------------ basic values
\* a nil pointer
NIL == [kind |-> "nil"]

\* the nil error
NoErr == <<>>

\* fmt.Errorf("%s: %v", errPrefix, err)
Errorf(errPrefix, err) == <<errPrefix, ": ">> \o err

\* (namespace, name) address of an object in the cluster
Key(obj) == [kind |-> obj.kind, ns |-> obj.ns, name |-> obj.name]

\* the object as the API server returns it from a create
Stored(obj) == [obj EXCEPT !.uid = 1]

\* ------------------------------------------------------- resource factory
NameResultsConfigMap(checkupName) == checkupName \o "-results"

NameResultsConfigMapWriterRole(checkupName) == checkupName \o "-results-cm-writer"

NameJob(checkupName) == checkupName \o "-checkup"

NewConfigMap(namespaceName, name) ==
    [kind |-> "ConfigMap", ns |-> namespaceName, name |-> name, uid |-> 0]

\* A policy rule that names no object: a grant on every ConfigMap of the
\* namespace.
newConfigMapWriterPolicyRule_AllConfigMaps(cmName) ==
    [Verbs |-> <<"get", "update", "patch">>,
     APIGroups |-> <<"">>,
     Resources |-> <<"configmaps">>,
     ResourceNames |-> <<>>]

newConfigMapWriterPolicyRule(cmName) ==
    [Verbs |-> <<"get", "update", "patch">>,
     APIGroups |-> <<"">>,
     Resources |-> <<"configmaps">>,
     ResourceNames |-> <<cmName>>]

NewConfigMapWriterRole(namespaceName, name, configMapName) ==
    [kind |-> "Role", ns |-> namespaceName, name |-> name, uid |-> 0,
     Rules |-> <<newConfigMapWriterPolicyRule(configMapName)>>]

NewServiceAccountSubject(serviceAccountNamespace, serviceAccountName) ==
    [Kind |-> "ServiceAccount", Name |-> serviceAccountName,
     Namespace |-> serviceAccountNamespace]

NewRoleBinding(namespaceName, roleName, subject) ==
    [kind |-> "RoleBinding", ns |-> namespaceName, name |-> roleName, uid |-> 0,
     Subjects |-> <<subject>>,
     RoleRef |-> [Kind |-> "Role", Name |-> roleName]]

NewCheckupJob(namespaceName, name, serviceAccountName, image, activeDeadlineSeconds, envs) ==
    [kind |-> "Job", ns |-> namespaceName, name |-> name, uid |-> 0,
     status |-> "none",
     BackoffLimit |-> 0,
     ActiveDeadlineSeconds |-> activeDeadlineSeconds,
     ServiceAccountName |-> serviceAccountName,
     RestartPolicy |-> "Never",
     TerminationGracePeriodSeconds |-> 5,
     Image |-> image,
     Env |-> envs]

\* int64(d.Seconds()): a duration in milliseconds truncated to whole seconds
Seconds(d) == d \div 1000

New(targetNsName, name, checkupConfig) ==
    LET resultsConfigMapName == NameResultsConfigMap(name)
        resultsConfigMapWriterRoleName == NameResultsConfigMapWriterRole(name)
        jobName == NameJob(name)
        checkupRoles ==
            <<NewConfigMapWriterRole(targetNsName, resultsConfigMapWriterRoleName,
                                     resultsConfigMapName)>>
        serviceAccountSubject ==
            NewServiceAccountSubject(targetNsName, checkupConfig.ServiceAccountName)
        checkupRoleBindings ==
            [i \in 1..Len(checkupRoles) |->
                NewRoleBinding(targetNsName, checkupRoles[i].name, serviceAccountSubject)]
        checkupEnvVars ==
            << [Name |-> UIDEnvVarName, Value |-> checkupConfig.UID],
               [Name |-> ResultsConfigMapNameEnvVarName, Value |-> resultsConfigMapName],
               [Name |-> ResultsConfigMapNameEnvVarNamespace, Value |-> targetNsName] >>
            \o checkupConfig.EnvVars
    IN  [teardownTimeout |-> defaultTeardownTimeout,
         resultConfigMap |-> NewConfigMap(targetNsName, resultsConfigMapName),
         roles |-> checkupRoles,
         roleBindings |-> checkupRoleBindings,
         jobTimeout |-> checkupConfig.Timeout,
         job |-> NewCheckupJob(targetNsName, jobName,
                               checkupConfig.ServiceAccountName, checkupConfig.Image,
                               Seconds(checkupConfig.Timeout), checkupEnvVars)]

\* ------------------------------------------------------------ collaborators
\* Outcomes the environment can give a call.
CreateOutcomes == {"ok", "fail"}

WaitOutcomes == {"ok", "timeout", "failed"}

DeleteOutcomes == {"ok", "fail"}

DeleteAndWaitOutcomes == {"ok", "timeout"}

ReadOutcomes == {"ok", "fail"}

\* The error a failed call returns: one token naming the call and the cause.
CallErr(fn, out) == <<fn \o " " \o out>>

\* A create against the API server (the idiom of serviceaccount.Create):
\* dereferences the object for its namespace, and on failure returns no
\* object together with the error.  A create of an existing key fails.
ApiCreate(fn, cl, obj, o) ==
    IF obj = NIL
    THEN [panic |-> TRUE, obj |-> NIL, err |-> NoErr, cluster |-> cl, new |-> {},
          call |-> [fn |-> fn, arg |-> obj, out |-> "panic"]]
    ELSE LET out == IF o = "ok" /\ Key(obj) \in cl THEN "exists" ELSE o
         IN  IF out = "ok"
             THEN [panic |-> FALSE, obj |-> Stored(obj), err |-> NoErr,
                   cluster |-> cl \cup {Key(obj)}, new |-> {Key(obj)},
                   call |-> [fn |-> fn, arg |-> obj, out |-> out]]
             ELSE [panic |-> FALSE, obj |-> NIL, err |-> CallErr(fn, out),
                   cluster |-> cl, new |-> {},
                   call |-> [fn |-> fn, arg |-> obj, out |-> out]]

configmap_Create(cl, cm, o) == ApiCreate("configmap.Create", cl, cm, o)

job_Create(cl, job, o) == ApiCreate("job.Create", cl, job, o)

\* Creates the objects of a list one by one; the first failure ends the loop
\* and returns no list together with the error.
RECURSIVE CreateList(_, _, _, _, _, _)
CreateList(fn, cl, objs, o, acc, new) ==
    IF objs = <<>>
    THEN [objs |-> acc, err |-> NoErr, cluster |-> cl, new |-> new, out |-> "ok"]
    ELSE LET r == ApiCreate(fn, cl, Head(objs), o)
         IN  IF r.err # NoErr
             THEN [objs |-> <<>>, err |-> r.err, cluster |-> r.cluster,
                   new |-> new, out |-> r.call.out]
             ELSE CreateList(fn, r.cluster, Tail(objs), o,
                             Append(acc, r.obj), new \cup r.new)

ListCreate(fn, cl, objs, o) ==
    LET r == CreateList(fn, cl, objs, o, <<>>, {})
    IN  [objs |-> r.objs, err |-> r.err, cluster |-> r.cluster, new |-> r.new,
         call |-> [fn |-> fn, arg |-> objs, out |-> r.out]]

rbac_CreateRoles(cl, roles, o) == ListCreate("rbac.CreateRoles", cl, roles, o)

rbac_CreateRoleBindings(cl, rbs, o) == ListCreate("rbac.CreateRoleBindings", cl, rbs, o)

\* wait_for_completion(workload, timeout) -> workload | TimeoutError | FailureError
job_WaitForJobToFinish(job, timeout, o) ==
    LET updatedJob == IF o = "ok" THEN [job EXCEPT !.status = "Complete"] ELSE NIL
    IN  [obj |-> updatedJob,
         err |-> IF o = "ok" THEN NoErr ELSE CallErr("job.WaitForJobToFinish", o),
         call |-> [fn |-> "job.WaitForJobToFinish", arg |-> job, timeout |-> timeout,
                   out |-> o, res |-> updatedJob]]

\* fetch_logs(workload) -> text
job_GetLogs(job, o) ==
    [logs |-> IF o = "ok" THEN "logs" ELSE "",
     err |-> IF o = "ok" THEN NoErr ELSE CallErr("job.GetLogs", o),
     call |-> [fn |-> "job.GetLogs", arg |-> job, out |-> o]]

\* delete the workload, then wait_for_deletion(workload, timeout) -> () | TimeoutError
job_DeleteAndWait(cl, job, timeout, o) ==
    [err |-> IF o = "ok" THEN NoErr ELSE CallErr("job.DeleteAndWait", o),
     cluster |-> IF o = "ok" THEN cl \ {Key(job)} ELSE cl,
     call |-> [fn |-> "job.DeleteAndWait", arg |-> job, timeout |-> timeout,
               out |-> o]]

\* Deletes every object of a list; an empty list has nothing that can fail.
ListDelete(fn, cl, objs, o) ==
    LET out == IF objs = <<>> THEN "ok" ELSE o
    IN  [err |-> IF out = "ok" THEN NoErr ELSE CallErr(fn, out),
         cluster |-> IF out = "ok"
                     THEN cl \ {Key(objs[i]) : i \in 1..Len(objs)}
                     ELSE cl,
         call |-> [fn |-> fn, arg |-> objs, out |-> out]]

rbac_DeleteRoleBindings(cl, rbs, o) == ListDelete("rbac.DeleteRoleBindings", cl, rbs, o)

rbac_DeleteRoles(cl, roles, o) == ListDelete("rbac.DeleteRoles", cl, roles, o)

\* delete of the config map addressed by (namespace, name)
configmap_Delete(cl, namespace, name, o) ==
    LET key == [kind |-> "ConfigMap", ns |-> namespace, name |-> name]
    IN  [err |-> IF o = "ok" THEN NoErr ELSE CallErr("configmap.Delete", o),
         cluster |-> IF o = "ok" THEN cl \ {key} ELSE cl,
         call |-> [fn |-> "configmap.Delete", arg |-> key, out |-> o]]

\* read_result_store(namespace, name) -> mapping[string,string]
\* A successful read returns the contents the store has at that moment; a
\* failed one returns empty results together with the error.
results_ReadFromConfigMap(data, namespace, name, o) ==
    LET key == [kind |-> "ConfigMap", ns |-> namespace, name |-> name]
    IN  [results |-> IF o = "ok" THEN data ELSE "",
         err |-> IF o = "ok" THEN NoErr ELSE CallErr("results.ReadFromConfigMap", o),
         call |-> [fn |-> "results.ReadFromConfigMap", arg |-> key, out |-> o]]

\* ------------------------------------------------------------- the methods
\* Each method maps the instance and the cluster to the instance and cluster
\* it leaves behind, the objects it created, the collaborator calls it
\* issued in order, its returned error, and whether it panicked (a nil
\* pointer dereference ends the invocation without a return).
\* the value of a method that returns only an error
NoVal == "none"

DoneVal(c1, cl, new, calls, ret, val) ==
    [c |-> c1, cluster |-> cl, new |-> new, calls |-> calls, ret |-> ret,
     val |-> val, panic |-> FALSE]

Done(c1, cl, new, calls, ret) == DoneVal(c1, cl, new, calls, ret, NoVal)

Panic(c1, cl, new, calls) ==
    [c |-> c1, cluster |-> cl, new |-> new, calls |-> calls, ret |-> NoErr,
     val |-> NoVal, panic |-> TRUE]

\* A Setup that does not check the outcome of the role create.
SetupImpl_RolesErrIgnored(c0, cl0, o) ==
    LET errPrefix == "setup"
        r1 == configmap_Create(cl0, c0.resultConfigMap, o.cm)
        c1 == [c0 EXCEPT !.resultConfigMap = r1.obj]
        r2 == rbac_CreateRoles(r1.cluster, c1.roles, o.roles)
        c2 == [c1 EXCEPT !.roles = r2.objs]
        r3 == rbac_CreateRoleBindings(r2.cluster, c2.roleBindings, o.roleBindings)
        c3 == [c2 EXCEPT !.roleBindings = r3.objs]
    IN  IF r1.panic
        THEN Panic(c0, cl0, {}, <<r1.call>>)
        ELSE IF r1.err # NoErr
        THEN Done(c1, r1.cluster, r1.new, <<r1.call>>, Errorf(errPrefix, r1.err))
        ELSE IF r3.err # NoErr
        THEN Done(c3, r3.cluster, r1.new \cup r2.new \cup r3.new,
                  <<r1.call, r2.call, r3.call>>, Errorf(errPrefix, r3.err))
        ELSE Done(c3, r3.cluster, r1.new \cup r2.new \cup r3.new,
                  <<r1.call, r2.call, r3.call>>, NoErr)

\* A Setup that, on a failed create, deletes what it created before it.
SetupImpl_Rollback(c0, cl0, o) ==
    LET errPrefix == "setup"
        r1 == configmap_Create(cl0, c0.resultConfigMap, o.cm)
        c1 == [c0 EXCEPT !.resultConfigMap = r1.obj]
        r2 == rbac_CreateRoles(r1.cluster, c1.roles, o.roles)
        c2 == [c1 EXCEPT !.roles = r2.objs]
        r3 == rbac_CreateRoleBindings(r2.cluster, c2.roleBindings, o.roleBindings)
        c3 == [c2 EXCEPT !.roleBindings = r3.objs]
    IN  IF r1.panic
        THEN Panic(c0, cl0, {}, <<r1.call>>)
        ELSE IF r1.err # NoErr
        THEN Done(c1, r1.cluster, r1.new, <<r1.call>>, Errorf(errPrefix, r1.err))
        ELSE IF r2.err # NoErr
        THEN Done(c2, r2.cluster \ r1.new, r1.new \cup r2.new, <<r1.call, r2.call>>,
                  Errorf(errPrefix, r2.err))
        ELSE IF r3.err # NoErr
        THEN Done(c3, r3.cluster \ (r1.new \cup r2.new), r1.new \cup r2.new \cup r3.new,
                  <<r1.call, r2.call, r3.call>>, Errorf(errPrefix, r3.err))
        ELSE Done(c3, r3.cluster, r1.new \cup r2.new \cup r3.new,
                  <<r1.call, r2.call, r3.call>>, NoErr)

\* A Setup that refuses to run on an instance that was set up before.
SetupImpl_OnlyOnce(c0, cl0, o) ==
    LET errPrefix == "setup"
        r1 == configmap_Create(cl0, c0.resultConfigMap, o.cm)
        c1 == [c0 EXCEPT !.resultConfigMap = r1.obj]
        r2 == rbac_CreateRoles(r1.cluster, c1.roles, o.roles)
        c2 == [c1 EXCEPT !.roles = r2.objs]
        r3 == rbac_CreateRoleBindings(r2.cluster, c2.roleBindings, o.roleBindings)
        c3 == [c2 EXCEPT !.roleBindings = r3.objs]
    IN  IF c0.resultConfigMap # NIL /\ c0.resultConfigMap.uid # 0
        THEN Done(c0, cl0, {}, <<>>, Errorf(errPrefix, <<"already set up">>))
        ELSE IF r1.panic
        THEN Panic(c0, cl0, {}, <<r1.call>>)
        ELSE IF r1.err # NoErr
        THEN Done(c1, r1.cluster, r1.new, <<r1.call>>, Errorf(errPrefix, r1.err))
        ELSE IF r2.err # NoErr
        THEN Done(c2, r2.cluster, r1.new \cup r2.new, <<r1.call, r2.call>>,
                  Errorf(errPrefix, r2.err))
        ELSE IF r3.err # NoErr
        THEN Done(c3, r3.cluster, r1.new \cup r2.new \cup r3.new,
                  <<r1.call, r2.call, r3.call>>, Errorf(errPrefix, r3.err))
        ELSE Done(c3, r3.cluster, r1.new \cup r2.new \cup r3.new,
                  <<r1.call, r2.call, r3.call>>, NoErr)

SetupImpl(c0, cl0, o) ==
    LET errPrefix == "setup"
        r1 == configmap_Create(cl0, c0.resultConfigMap, o.cm)
        c1 == [c0 EXCEPT !.resultConfigMap = r1.obj]
        r2 == rbac_CreateRoles(r1.cluster, c1.roles, o.roles)
        c2 == [c1 EXCEPT !.roles = r2.objs]
        r3 == rbac_CreateRoleBindings(r2.cluster, c2.roleBindings, o.roleBindings)
        c3 == [c2 EXCEPT !.roleBindings = r3.objs]
    IN  IF r1.panic
        THEN Panic(c0, cl0, {}, <<r1.call>>)
        ELSE IF r1.err # NoErr
        THEN Done(c1, r1.cluster, r1.new, <<r1.call>>, Errorf(errPrefix, r1.err))
        ELSE IF r2.err # NoErr
        THEN Done(c2, r2.cluster, r1.new \cup r2.new, <<r1.call, r2.call>>,
                  Errorf(errPrefix, r2.err))
        ELSE IF r3.err # NoErr
        THEN Done(c3, r3.cluster, r1.new \cup r2.new \cup r3.new,
                  <<r1.call, r2.call, r3.call>>, Errorf(errPrefix, r3.err))
        ELSE Done(c3, r3.cluster, r1.new \cup r2.new \cup r3.new,
                  <<r1.call, r2.call, r3.call>>, NoErr)

\* A Run that assigns the result of the wait to the held workload before
\* checking the error.
RunImpl_AssignOnWaitError(c0, cl0, o) ==
    LET errPrefix == "run"
        r1 == job_Create(cl0, c0.job, o.job)
        c1 == [c0 EXCEPT !.job = r1.obj]
        r2 == job_WaitForJobToFinish(c1.job, c1.jobTimeout, o.wait)
        c2 == [c1 EXCEPT !.job = r2.obj]
    IN  IF r1.panic
        THEN Panic(c0, cl0, {}, <<r1.call>>)
        ELSE IF r1.err # NoErr
        THEN Done(c1, r1.cluster, r1.new, <<r1.call>>, Errorf(errPrefix, r1.err))
        ELSE IF r2.err # NoErr
        THEN Done(c2, r1.cluster, r1.new, <<r1.call, r2.call>>,
                  Errorf(errPrefix, r2.err))
        ELSE Done(c2, r1.cluster, r1.new, <<r1.call, r2.call>>, NoErr)

\* A Run that keeps the created workload and drops the one the wait returned.
RunImpl_KeepCreated(c0, cl0, o) ==
    LET errPrefix == "run"
        r1 == job_Create(cl0, c0.job, o.job)
        c1 == [c0 EXCEPT !.job = r1.obj]
        r2 == job_WaitForJobToFinish(c1.job, c1.jobTimeout, o.wait)
    IN  IF r1.panic
        THEN Panic(c0, cl0, {}, <<r1.call>>)
        ELSE IF r1.err # NoErr
        THEN Done(c1, r1.cluster, r1.new, <<r1.call>>, Errorf(errPrefix, r1.err))
        ELSE IF r2.err # NoErr
        THEN Done(c1, r1.cluster, r1.new, <<r1.call, r2.call>>,
                  Errorf(errPrefix, r2.err))
        ELSE Done(c1, r1.cluster, r1.new, <<r1.call, r2.call>>, NoErr)

\* A Run that reports success when the completion wait fails.
RunImpl_IgnoreWaitErr(c0, cl0, o) ==
    LET errPrefix == "run"
        r1 == job_Create(cl0, c0.job, o.job)
        c1 == [c0 EXCEPT !.job = r1.obj]
        r2 == job_WaitForJobToFinish(c1.job, c1.jobTimeout, o.wait)
    IN  IF r1.panic
        THEN Panic(c0, cl0, {}, <<r1.call>>)
        ELSE IF r1.err # NoErr
        THEN Done(c1, r1.cluster, r1.new, <<r1.call>>, Errorf(errPrefix, r1.err))
        ELSE Done(c1, r1.cluster, r1.new, <<r1.call, r2.call>>, NoErr)

RunImpl(c0, cl0, o) ==
    LET errPrefix == "run"
        r1 == job_Create(cl0, c0.job, o.job)
        c1 == [c0 EXCEPT !.job = r1.obj]
        r2 == job_WaitForJobToFinish(c1.job, c1.jobTimeout, o.wait)
        c2 == [c1 EXCEPT !.job = r2.obj]
    IN  IF r1.panic
        THEN Panic(c0, cl0, {}, <<r1.call>>)
        ELSE IF r1.err # NoErr
        THEN Done(c1, r1.cluster, r1.new, <<r1.call>>, Errorf(errPrefix, r1.err))
        ELSE IF r2.err # NoErr
        THEN Done(c1, r1.cluster, r1.new, <<r1.call, r2.call>>,
                  Errorf(errPrefix, r2.err))
        ELSE Done(c2, r1.cluster, r1.new, <<r1.call, r2.call>>, NoErr)

\* A Results that reads a second time when the first read fails.
ResultsImpl_Retry(c0, cl0, data, o) ==
    IF c0.resultConfigMap = NIL
    THEN Panic(c0, cl0, {}, <<>>)
    ELSE LET r == results_ReadFromConfigMap(data, c0.resultConfigMap.ns,
                                            c0.resultConfigMap.name, o.read)
             again == results_ReadFromConfigMap(data, c0.resultConfigMap.ns,
                                                c0.resultConfigMap.name, "ok")
         IN  IF r.err # NoErr
             THEN DoneVal(c0, cl0, {}, <<r.call, again.call>>, again.err, again.results)
             ELSE DoneVal(c0, cl0, {}, <<r.call>>, r.err, r.results)

ResultsImpl(c0, cl0, data, o) ==
    IF c0.resultConfigMap = NIL
    THEN Panic(c0, cl0, {}, <<>>)
    ELSE LET r == results_ReadFromConfigMap(data, c0.resultConfigMap.ns,
                                            c0.resultConfigMap.name, o.read)
         IN  DoneVal(c0, cl0, {}, <<r.call>>, r.err, r.results)

\* A Logs whose guard is whether the workload was created in the cluster.
LogsImpl_GuardCreated(c0, cl0, o) ==
    IF c0.job = NIL \/ c0.job.uid = 0
    THEN Done(c0, cl0, {}, <<>>, <<"job is nil">>)
    ELSE LET r == job_GetLogs(c0.job, o.logs)
         IN  Done(c0, cl0, {}, <<r.call>>, r.err)

LogsImpl(c0, cl0, o) ==
    IF c0.job = NIL
    THEN Done(c0, cl0, {}, <<>>, <<"job is nil">>)
    ELSE LET r == job_GetLogs(c0.job, o.logs)
         IN  Done(c0, cl0, {}, <<r.call>>, r.err)

\* A SetTeardownTimeout that sets the execution timeout as well.
SetTeardownTimeoutImpl_BothTimeouts(c0, cl0, duration) ==
    Done([c0 EXCEPT !.teardownTimeout = duration, !.jobTimeout = duration],
         cl0, {}, <<>>, NoErr)

SetTeardownTimeoutImpl(c0, cl0, duration) ==
    Done([c0 EXCEPT !.teardownTimeout = duration], cl0, {}, <<>>, NoErr)

\* A concentrateErrors that keeps only the first collected error.
concentrateErrors_FirstOnly(errs) ==
    IF errs = <<>> THEN <<>> ELSE Head(errs) \o <<"\n">>

\* for _, err := range errs { sb.WriteString(err.Error()); sb.WriteString("\n") }
RECURSIVE concentrateErrors(_)
concentrateErrors(errs) ==
    IF errs = <<>> THEN <<>>
    ELSE Head(errs) \o <<"\n">> \o concentrateErrors(Tail(errs))

\* if err != nil { errs = append(errs, err) }
AppendErr(errs, err) == IF err # NoErr THEN Append(errs, err) ELSE errs

\* A Teardown that deletes the roles only together with role bindings.
TeardownImpl_RolesWithBindings(c0, cl0, o) ==
    LET skipJob == c0.job = NIL
        skipRbac == c0.roleBindings = <<>>
        r1 == job_DeleteAndWait(cl0, c0.job, c0.teardownTimeout, o.job)
        cl1 == IF skipJob THEN cl0 ELSE r1.cluster
        calls1 == IF skipJob THEN <<>> ELSE <<r1.call>>
        errs1 == IF skipJob THEN <<>> ELSE AppendErr(<<>>, r1.err)
        r2 == rbac_DeleteRoleBindings(cl1, c0.roleBindings, o.roleBindings)
        errs2 == AppendErr(errs1, r2.err)
        r3 == rbac_DeleteRoles(r2.cluster, c0.roles, o.roles)
        errs3 == IF skipRbac THEN errs1 ELSE AppendErr(errs2, r3.err)
        cl3 == IF skipRbac THEN cl1 ELSE r3.cluster
        calls3 == IF skipRbac THEN calls1 ELSE calls1 \o <<r2.call, r3.call>>
        r4 == configmap_Delete(cl3, c0.resultConfigMap.ns,
                               c0.resultConfigMap.name, o.cm)
        errs4 == AppendErr(errs3, r4.err)
    IN  IF c0.resultConfigMap = NIL
        THEN Panic(c0, cl3, {}, calls3)
        ELSE IF Len(errs4) > 0
        THEN Done(c0, r4.cluster, {}, Append(calls3, r4.call),
                  Errorf("teardown", concentrateErrors(errs4)))
        ELSE Done(c0, r4.cluster, {}, Append(calls3, r4.call), NoErr)

\* A Teardown that returns at the first step that fails.
TeardownImpl_EarlyExit(c0, cl0, o) ==
    LET skipJob == c0.job = NIL
        r1 == job_DeleteAndWait(cl0, c0.job, c0.teardownTimeout, o.job)
        cl1 == IF skipJob THEN cl0 ELSE r1.cluster
        calls1 == IF skipJob THEN <<>> ELSE <<r1.call>>
        r2 == rbac_DeleteRoleBindings(cl1, c0.roleBindings, o.roleBindings)
        r3 == rbac_DeleteRoles(r2.cluster, c0.roles, o.roles)
        calls3 == calls1 \o <<r2.call, r3.call>>
        r4 == configmap_Delete(r3.cluster, c0.resultConfigMap.ns,
                               c0.resultConfigMap.name, o.cm)
        Fail(err) == Errorf("teardown", err \o <<"\n">>)
    IN  IF ~skipJob /\ r1.err # NoErr
        THEN Done(c0, cl1, {}, calls1, Fail(r1.err))
        ELSE IF r2.err # NoErr
        THEN Done(c0, r2.cluster, {}, Append(calls1, r2.call), Fail(r2.err))
        ELSE IF r3.err # NoErr
        THEN Done(c0, r3.cluster, {}, calls3, Fail(r3.err))
        ELSE IF c0.resultConfigMap = NIL
        THEN Panic(c0, r3.cluster, {}, calls3)
        ELSE IF r4.err # NoErr
        THEN Done(c0, r4.cluster, {}, Append(calls3, r4.call), Fail(r4.err))
        ELSE Done(c0, r4.cluster, {}, Append(calls3, r4.call), NoErr)

\* A Teardown that also skips a workload that was never created.
TeardownImpl_SkipUncreated(c0, cl0, o) ==
    LET skipJob == c0.job = NIL \/ c0.job.uid = 0
        r1 == job_DeleteAndWait(cl0, c0.job, c0.teardownTimeout, o.job)
        cl1 == IF skipJob THEN cl0 ELSE r1.cluster
        calls1 == IF skipJob THEN <<>> ELSE <<r1.call>>
        errs1 == IF skipJob THEN <<>> ELSE AppendErr(<<>>, r1.err)
        r2 == rbac_DeleteRoleBindings(cl1, c0.roleBindings, o.roleBindings)
        errs2 == AppendErr(errs1, r2.err)
        r3 == rbac_DeleteRoles(r2.cluster, c0.roles, o.roles)
        errs3 == AppendErr(errs2, r3.err)
        calls3 == calls1 \o <<r2.call, r3.call>>
        r4 == configmap_Delete(r3.cluster, c0.resultConfigMap.ns,
                               c0.resultConfigMap.name, o.cm)
        errs4 == AppendErr(errs3, r4.err)
    IN  IF c0.resultConfigMap = NIL
        THEN Panic(c0, r3.cluster, {}, calls3)
        ELSE IF Len(errs4) > 0
        THEN Done(c0, r4.cluster, {}, Append(calls3, r4.call),
                  Errorf("teardown", concentrateErrors(errs4)))
        ELSE Done(c0, r4.cluster, {}, Append(calls3, r4.call), NoErr)

\* A Teardown that forgets the workload once it has deleted it.
TeardownImpl_ForgetsJob(c0, cl0, o) ==
    LET skipJob == c0.job = NIL
        r1 == job_DeleteAndWait(cl0, c0.job, c0.teardownTimeout, o.job)
        cl1 == IF skipJob THEN cl0 ELSE r1.cluster
        calls1 == IF skipJob THEN <<>> ELSE <<r1.call>>
        errs1 == IF skipJob THEN <<>> ELSE AppendErr(<<>>, r1.err)
        c1 == IF ~skipJob /\ r1.err = NoErr THEN [c0 EXCEPT !.job = NIL] ELSE c0
        r2 == rbac_DeleteRoleBindings(cl1, c0.roleBindings, o.roleBindings)
        errs2 == AppendErr(errs1, r2.err)
        r3 == rbac_DeleteRoles(r2.cluster, c0.roles, o.roles)
        errs3 == AppendErr(errs2, r3.err)
        calls3 == calls1 \o <<r2.call, r3.call>>
        r4 == configmap_Delete(r3.cluster, c0.resultConfigMap.ns,
                               c0.resultConfigMap.name, o.cm)
        errs4 == AppendErr(errs3, r4.err)
    IN  IF c0.resultConfigMap = NIL
        THEN Panic(c1, r3.cluster, {}, calls3)
        ELSE IF Len(errs4) > 0
        THEN Done(c1, r4.cluster, {}, Append(calls3, r4.call),
                  Errorf("teardown", concentrateErrors(errs4)))
        ELSE Done(c1, r4.cluster, {}, Append(calls3, r4.call), NoErr)

TeardownImpl(c0, cl0, o) ==
    LET skipJob == c0.job = NIL
        r1 == job_DeleteAndWait(cl0, c0.job, c0.teardownTimeout, o.job)
        cl1 == IF skipJob THEN cl0 ELSE r1.cluster
        calls1 == IF skipJob THEN <<>> ELSE <<r1.call>>
        errs1 == IF skipJob THEN <<>> ELSE AppendErr(<<>>, r1.err)
        r2 == rbac_DeleteRoleBindings(cl1, c0.roleBindings, o.roleBindings)
        errs2 == AppendErr(errs1, r2.err)
        r3 == rbac_DeleteRoles(r2.cluster, c0.roles, o.roles)
        errs3 == AppendErr(errs2, r3.err)
        calls3 == calls1 \o <<r2.call, r3.call>>
        r4 == configmap_Delete(r3.cluster, c0.resultConfigMap.ns,
                               c0.resultConfigMap.name, o.cm)
        errs4 == AppendErr(errs3, r4.err)
        errPrefix == "teardown"
    IN  IF c0.resultConfigMap = NIL
        THEN Panic(c0, r3.cluster, {}, calls3)
        ELSE IF Len(errs4) > 0
        THEN Done(c0, r4.cluster, {}, Append(calls3, r4.call),
                  Errorf(errPrefix, concentrateErrors(errs4)))
        ELSE Done(c0, r4.cluster, {}, Append(calls3, r4.call), NoErr)

\* ------------------------------------------------------------ state machine
\* no invocation is suspended
Idle == [at |-> "idle"]

\* the validator has not been called
NotValidated == [params |-> <<>>, result |-> [tag |-> "pending"]]

\* contents of the result store before the workload wrote to it
EmptyStore == [data |-> "", writes |-> 0]

\* The state after New(run.ns, run.name, cfg), for a caller that makes at
\* most lim method invocations.
Constructed(cfgs, runs, lim) ==
    /\ cfg \in cfgs
    /\ run \in runs
    /\ limit = lim
    /\ c = New(run.ns, run.name, cfg)
    /\ cluster = {}
    /\ store = EmptyStore
    /\ created = {}
    /\ hist = <<>>
    /\ panicked = FALSE
    /\ pc = Idle

\* the run of the lifecycle specification
DefaultRun == [ns |-> TargetNsName, name |-> CheckupName]

Init ==
    /\ Constructed(Configs, {DefaultRun}, MaxCalls)
    /\ validation = NotValidated

\* The caller may invoke a method while the process is alive and no
\* invocation is in progress.
CanCall == ~panicked /\ pc = Idle /\ Len(hist) < limit

\* Records an invocation with argument arg and its effect.
InvokeArg(op, arg, r) ==
    /\ c' = r.c
    /\ cluster' = r.cluster
    /\ created' = created \cup r.new
    /\ hist' = Append(hist, [op |-> op, arg |-> arg, before |-> c,
                             data |-> store.data, writes |-> store.writes,
                             calls |-> r.calls, ret |-> r.ret, val |-> r.val,
                             panic |-> r.panic])
    /\ panicked' = r.panic
    /\ pc' = Idle
    /\ UNCHANGED <<cfg, run, limit, store, validation>>

Invoke(op, r) == InvokeArg(op, <<>>, r)

Setup ==
    /\ CanCall
    /\ \E o \in [cm : CreateOutcomes, roles : CreateOutcomes,
                 roleBindings : CreateOutcomes] :
          Invoke("Setup", SetupImpl(c, cluster, o))

Run ==
    /\ CanCall
    /\ \E o \in [job : CreateOutcomes, wait : WaitOutcomes] :
          Invoke("Run", RunImpl(c, cluster, o))

Results ==
    /\ CanCall
    /\ \E o \in [read : ReadOutcomes] :
          Invoke("Results", ResultsImpl(c, cluster, store.data, o))

Logs ==
    /\ CanCall
    /\ \E o \in [logs : ReadOutcomes] :
          Invoke("Logs", LogsImpl(c, cluster, o))

SetTeardownTimeout ==
    /\ CanCall
    /\ \E duration \in Durations :
          InvokeArg("SetTeardownTimeout", duration,
                    SetTeardownTimeoutImpl(c, cluster, duration))

Teardown ==
    /\ CanCall
    /\ \E o \in [job : DeleteAndWaitOutcomes, roleBindings : DeleteOutcomes,
                 roles : DeleteOutcomes, cm : DeleteOutcomes] :
          Invoke("Teardown", TeardownImpl(c, cluster, o))

Next ==
    \/ Setup
    \/ Run
    \/ Results
    \/ Logs
    \/ SetTeardownTimeout
    \/ Teardown

Spec == Init /\ [][Next]_vars

\* ------------------------------------------- result store under writes
\* invocations a caller makes while the workload writes its results
MaxStoreCalls == 3

\* writes the workload makes to the result store
MaxWrites == 2

\* contents the workload may leave in the result store
StoreContents == {"", "r1", "r2"}

InitStore ==
    /\ Constructed(Configs, {DefaultRun}, MaxStoreCalls)
    /\ validation = NotValidated

\* The workload replaces the contents of the result store.
WriteStore ==
    /\ store.writes < MaxWrites
    /\ \E data \in StoreContents \ {store.data} :
          store' = [data |-> data, writes |-> store.writes + 1]
    /\ UNCHANGED <<cfg, run, limit, c, cluster, created, hist, panicked, pc,
                   validation>>

NextStore ==
    \/ Setup
    \/ Results
    \/ WriteStore

SpecStore == InitStore /\ [][NextStore]_vars

\* ------------------------------------------ invocations that take time
\* invocations a caller makes when Run and Teardown are entered and left in
\* two steps
MaxLiveCalls == 2

\* Run() / Teardown() has been entered and has not come back
InRun == [at |-> "Run"]

InTeardown == [at |-> "Teardown"]

InitLive ==
    /\ Constructed(Configs, {DefaultRun}, MaxLiveCalls)
    /\ validation = NotValidated

\* The caller invokes Run(), which does not come back at once.
RunEnter ==
    /\ CanCall
    /\ pc' = InRun
    /\ UNCHANGED <<cfg, run, limit, c, cluster, store, created, hist, panicked,
                   validation>>

\* Run() comes back: its calls, the completion wait included, have returned.
RunReturn ==
    /\ ~panicked
    /\ pc = InRun
    /\ \E o \in [job : CreateOutcomes, wait : WaitOutcomes] :
          Invoke("Run", RunImpl(c, cluster, o))

\* The caller invokes Teardown(), which does not come back at once.
TeardownEnter ==
    /\ CanCall
    /\ pc' = InTeardown
    /\ UNCHANGED <<cfg, run, limit, c, cluster, store, created, hist, panicked,
                   validation>>

\* Teardown() comes back: its calls, the delete-and-wait included, have
\* returned.
TeardownReturn ==
    /\ ~panicked
    /\ pc = InTeardown
    /\ \E o \in [job : DeleteAndWaitOutcomes, roleBindings : DeleteOutcomes,
                 roles : DeleteOutcomes, cm : DeleteOutcomes] :
          Invoke("Teardown", TeardownImpl(c, cluster, o))

NextLive ==
    \/ Setup
    \/ RunEnter
    \/ RunReturn
    \/ TeardownEnter
    \/ TeardownReturn

\* The completion wait and the delete wait return by their timeout, and the
\* other calls of the cluster return: an entered invocation is not held
\* forever.
SpecLive ==
    /\ InitLive
    /\ [][NextLive]_vars
    /\ WF_vars(RunReturn)
    /\ WF_vars(TeardownReturn)

\* ------------------------------------------ construction over its inputs
\* invocations a caller makes on a checkup built from varied inputs
MaxNewCalls == 2

\* run names and namespaces New() is given
Runs == [ns : {TargetNsName, "ns-2"}, name : {CheckupName, "a"}]

\* checkupConfig values with execution timeouts of half a second, one and a
\* half seconds and two seconds (milliseconds)
TimeoutConfigs ==
    { [UID |-> "uid-1", Image |-> "img", ServiceAccountName |-> "sa",
       Timeout |-> t, EnvVars |-> <<>>] : t \in {500, 1500, 2000} }

InitNew ==
    /\ Constructed(TimeoutConfigs, Runs, MaxNewCalls)
    /\ validation = NotValidated

NextNew ==
    \/ Setup
    \/ Run
    \/ Results

SpecNew == InitNew /\ [][NextNew]_vars

\* ----------------------------------------------------- parameter validator
\* Strings that are parsed are sequences of one-character strings.  A
\* parameter map is a function from the keys it holds to their values.

\* Largest integer of the platform's int, scaled down for the model.
IntMax == 32767

NetworkNameParamName == "network_attachment_definition_name"

NetworkNamespaceParamName == "network_attachment_definition_namespace"

SampleDurationSecondsParamName == "sample_duration_seconds"

DesiredMaxLatencyMillisecondsParamName == "max_desired_latency_milliseconds"

SourceNodeNameParamName == "source_node"

TargetNodeNameParamName == "target_node"

DefaultSampleDurationSeconds == 5

DefaultDesiredMaxLatencyMilliseconds == 0

ErrInvalidParams == <<"ErrInvalidParams">>

ErrInvalidNetworkName == <<"ErrInvalidNetworkName">>

ErrInvalidNetworkNamespace == <<"ErrInvalidNetworkNamespace">>

ErrIllegalSourceAndTargetNodesCombination ==
    <<"ErrIllegalSourceAndTargetNodesCombination">>

ErrSyntax == "strconv.ErrSyntax"

ErrRange == "strconv.ErrRange"

Digits == <<"0", "1", "2", "3", "4", "5", "6", "7", "8", "9">>

IsDigit(ch) == \E d \in 1..10 : Digits[d] = ch

DigitValue(ch) == (CHOOSE d \in 1..10 : Digits[d] = ch) - 1

\* A scan that reports a value past the largest integer as a syntax error.
RECURSIVE ScanDigits_RangeAsSyntax(_, _)
ScanDigits_RangeAsSyntax(str, n) ==
    IF str = <<>> THEN [err |-> "", n |-> n]
    ELSE IF ~IsDigit(Head(str)) THEN [err |-> ErrSyntax, n |-> 0]
    ELSE IF n > (IntMax - DigitValue(Head(str))) \div 10
         THEN [err |-> ErrSyntax, n |-> 0]
    ELSE ScanDigits_RangeAsSyntax(Tail(str), n * 10 + DigitValue(Head(str)))

\* Scans an unsigned decimal left to right, as strconv does: the first
\* character that is not a digit is a syntax error, the first digit that
\* takes the value past the largest integer is a range error.
RECURSIVE ScanDigits(_, _)
ScanDigits(str, n) ==
    IF str = <<>> THEN [err |-> "", n |-> n]
    ELSE IF ~IsDigit(Head(str)) THEN [err |-> ErrSyntax, n |-> 0]
    ELSE IF n > (IntMax - DigitValue(Head(str))) \div 10
         THEN [err |-> ErrRange, n |-> IntMax]
    ELSE ScanDigits(Tail(str), n * 10 + DigitValue(Head(str)))

\* strconv.Atoi on an unsigned decimal; the empty string is a syntax error.
Atoi(str) ==
    IF str = <<>> THEN [err |-> ErrSyntax, n |-> 0] ELSE ScanDigits(str, 0)

Has(params, key) == key \in DOMAIN params

\* the value of a key, the empty string when the key is absent
Get(params, key) == IF Has(params, key) THEN params[key] ELSE <<>>

Failure(err) == [tag |-> "error", err |-> err]

\* A numeric key that is left at the zero value when it is absent.
NumericParam_NoDefault(params, key, default) ==
    IF ~Has(params, key) THEN [err |-> NoErr, n |-> 0]
    ELSE LET r == Atoi(params[key])
         IN  IF r.err = "" THEN [err |-> NoErr, n |-> r.n]
             ELSE [err |-> <<key, ": ", r.err>>, n |-> 0]

\* an optional numeric key: its default when absent, its parsed value when
\* present, or the parse error wrapped with the name of the key
NumericParam(params, key, default) ==
    IF ~Has(params, key) THEN [err |-> NoErr, n |-> default]
    ELSE LET r == Atoi(params[key])
         IN  IF r.err = "" THEN [err |-> NoErr, n |-> r.n]
             ELSE [err |-> <<key, ": ", r.err>>, n |-> 0]

\* A pair check that looks only at the values, as a lookup that cannot tell
\* an absent key from an empty one does.
IsLegalPair_ByValue(params, a, b) ==
    (Get(params, a) = <<>>) <=> (Get(params, b) = <<>>)

\* a linked pair of keys is legal when both are absent or both are present
\* and non-empty
IsLegalPair(params, a, b) ==
    \/ ~Has(params, a) /\ ~Has(params, b)
    \/ /\ Has(params, a) /\ params[a] # <<>>
       /\ Has(params, b) /\ params[b] # <<>>

\* A validator that checks the namespace before the name.
config_New_NamespaceFirst(params) ==
    LET duration == NumericParam(params, SampleDurationSecondsParamName,
                                 DefaultSampleDurationSeconds)
        latency == NumericParam(params, DesiredMaxLatencyMillisecondsParamName,
                                DefaultDesiredMaxLatencyMilliseconds)
    IN  IF DOMAIN params = {} THEN Failure(ErrInvalidParams)
        ELSE IF Get(params, NetworkNamespaceParamName) = <<>>
        THEN Failure(ErrInvalidNetworkNamespace)
        ELSE IF Get(params, NetworkNameParamName) = <<>>
        THEN Failure(ErrInvalidNetworkName)
        ELSE IF duration.err # NoErr THEN Failure(duration.err)
        ELSE IF latency.err # NoErr THEN Failure(latency.err)
        ELSE IF ~IsLegalPair(params, SourceNodeNameParamName, TargetNodeNameParamName)
        THEN Failure(ErrIllegalSourceAndTargetNodesCombination)
        ELSE [tag |-> "plan",
              plan |-> [SampleDurationSeconds |-> duration.n,
                        DesiredMaxLatencyMilliseconds |-> latency.n,
                        NetworkAttachmentDefinitionName |->
                            params[NetworkNameParamName],
                        NetworkAttachmentDefinitionNamespace |->
                            params[NetworkNamespaceParamName],
                        SourceNodeName |-> Get(params, SourceNodeNameParamName),
                        TargetNodeName |-> Get(params, TargetNodeNameParamName)]]

\* A validator that checks the node pair before the numeric keys.
config_New_PairFirst(params) ==
    LET duration == NumericParam(params, SampleDurationSecondsParamName,
                                 DefaultSampleDurationSeconds)
        latency == NumericParam(params, DesiredMaxLatencyMillisecondsParamName,
                                DefaultDesiredMaxLatencyMilliseconds)
    IN  IF DOMAIN params = {} THEN Failure(ErrInvalidParams)
        ELSE IF Get(params, NetworkNameParamName) = <<>>
        THEN Failure(ErrInvalidNetworkName)
        ELSE IF Get(params, NetworkNamespaceParamName) = <<>>
        THEN Failure(ErrInvalidNetworkNamespace)
        ELSE IF ~IsLegalPair(params, SourceNodeNameParamName, TargetNodeNameParamName)
        THEN Failure(ErrIllegalSourceAndTargetNodesCombination)
        ELSE IF duration.err # NoErr THEN Failure(duration.err)
        ELSE IF latency.err # NoErr THEN Failure(latency.err)
        ELSE [tag |-> "plan",
              plan |-> [SampleDurationSeconds |-> duration.n,
                        DesiredMaxLatencyMilliseconds |-> latency.n,
                        NetworkAttachmentDefinitionName |->
                            params[NetworkNameParamName],
                        NetworkAttachmentDefinitionNamespace |->
                            params[NetworkNamespaceParamName],
                        SourceNodeName |-> Get(params, SourceNodeNameParamName),
                        TargetNodeName |-> Get(params, TargetNodeNameParamName)]]

\* config.New: the validator
config_New(params) ==
    LET duration == NumericParam(params, SampleDurationSecondsParamName,
                                 DefaultSampleDurationSeconds)
        latency == NumericParam(params, DesiredMaxLatencyMillisecondsParamName,
                                DefaultDesiredMaxLatencyMilliseconds)
    IN  IF DOMAIN params = {} THEN Failure(ErrInvalidParams)
        ELSE IF Get(params, NetworkNameParamName) = <<>>
        THEN Failure(ErrInvalidNetworkName)
        ELSE IF Get(params, NetworkNamespaceParamName) = <<>>
        THEN Failure(ErrInvalidNetworkNamespace)
        ELSE IF duration.err # NoErr THEN Failure(duration.err)
        ELSE IF latency.err # NoErr THEN Failure(latency.err)
        ELSE IF ~IsLegalPair(params, SourceNodeNameParamName, TargetNodeNameParamName)
        THEN Failure(ErrIllegalSourceAndTargetNodesCombination)
        ELSE [tag |-> "plan",
              plan |-> [SampleDurationSeconds |-> duration.n,
                        DesiredMaxLatencyMilliseconds |-> latency.n,
                        NetworkAttachmentDefinitionName |->
                            params[NetworkNameParamName],
                        NetworkAttachmentDefinitionNamespace |->
                            params[NetworkNamespaceParamName],
                        SourceNodeName |-> Get(params, SourceNodeNameParamName),
                        TargetNodeName |-> Get(params, TargetNodeNameParamName)]]

\* ---- inputs of the validator
\* marks a key that the parameter map does not hold
Absent == <<"absent">>

NameValues == {Absent, <<>>, <<"b">>}

NodeValues == {Absent, <<>>, <<"w">>}

\* absent, empty, a small number, a non-number, the largest integer, the
\* integer after it, and a number far out of range
NumericValues ==
    {Absent, <<>>, <<"6", "0">>, <<"3", "r">>,
     <<"3", "2", "7", "6", "7">>, <<"3", "2", "7", "6", "8">>,
     <<"9", "9", "9", "9", "9", "9", "9">>}

ParamKeys ==
    {NetworkNameParamName, NetworkNamespaceParamName,
     SampleDurationSecondsParamName, DesiredMaxLatencyMillisecondsParamName,
     SourceNodeNameParamName, TargetNodeNameParamName}

ValuesOf(key) ==
    IF key \in {NetworkNameParamName, NetworkNamespaceParamName} THEN NameValues
    ELSE IF key \in {SourceNodeNameParamName, TargetNodeNameParamName} THEN NodeValues
    ELSE NumericValues

\* the parameter map that holds the keys a choice does not mark absent
ParamMap(choice) == [key \in {k \in ParamKeys : choice[k] # Absent} |-> choice[key]]

ParamMaps ==
    {ParamMap(choice) :
        choice \in {f \in [ParamKeys -> NameValues \cup NodeValues \cup NumericValues] :
                        \A k \in ParamKeys : f[k] \in ValuesOf(k)}}

\* The validator is a pure function: the specification draws a parameter map
\* and applies the validator to it once.
InitValidate ==
    /\ Constructed(Configs, {DefaultRun}, 0)
    /\ \E params \in ParamMaps :
          validation = [params |-> params, result |-> [tag |-> "pending"]]

Validate ==
    /\ validation.result.tag = "pending"
    /\ validation' = [validation EXCEPT !.result = config_New(validation.params)]
    /\ UNCHANGED <<cfg, run, limit, c, cluster, store, created, hist, panicked, pc>>

NextValidate == Validate

SpecValidate == InitValidate /\ [][NextValidate]_vars

\* ----------------------------------------------------------------- helpers
\* the most recent invocation
last == hist[Len(hist)]

\* the collaborator functions a sequence of calls names, in order
Fns(calls) == [i \in 1..Len(calls) |-> calls[i].fn]

\* how many calls of a sequence are to the function fn
Count(calls, fn) == Cardinality({i \in 1..Len(calls) : calls[i].fn = fn})

\* the calls of a sequence that failed, in order
IsFailed(call) == call.out # "ok"

Failed(calls) == SelectSeq(calls, IsFailed)

\* the tokens of an error value that are collaborator failures
IsGlue(tok) == tok \in {"setup", "run", "teardown", ": ", "\n"}

IsCause(tok) == ~IsGlue(tok)

Causes(err) == SelectSeq(err, IsCause)

\* the four cleanup steps of Teardown, in the order of the code
TeardownSteps ==
    <<"job.DeleteAndWait", "rbac.DeleteRoleBindings", "rbac.DeleteRoles",
      "configmap.Delete">>

TeardownEntries == {i \in 1..Len(hist) : hist[i].op = "Teardown"}

\* ------------------------------------------------------------------ claims

C2_TeardownAggregates ==
    \A i \in TeardownEntries :
        LET h == hist[i]
            failed == Failed(h.calls)
        IN  ~h.panic =>
              /\ h.ret = NoErr <=> failed = <<>>
              /\ failed # <<>> =>
                   /\ h.ret[1] = "teardown"
                   /\ Cardinality({k \in 1..Len(h.ret) : h.ret[k] = "teardown"}) = 1
                   /\ Causes(h.ret) =
                        [k \in 1..Len(failed) |-> failed[k].fn \o " " \o failed[k].out]

\* C2 witness: a Teardown that returned after its first and last steps failed.
C2_Witness ==
    \E i \in TeardownEntries :
        /\ ~hist[i].panic
        /\ Len(hist[i].calls) = 4
        /\ IsFailed(hist[i].calls[1])
        /\ ~IsFailed(hist[i].calls[2])
        /\ IsFailed(hist[i].calls[4])
        /\ Len(Causes(hist[i].ret)) = 2

\* invocations of Setup or Run that returned an error
IsFailedPhase(h) == h.op \in {"Setup", "Run"} /\ ~h.panic /\ h.ret # NoErr

\* C3: a Teardown invoked right after a failed Setup or a failed Run attempts
\* every deletion step and returns normally, its result being the aggregate
\* of the failures of its steps.
C3_TeardownAfterFailure ==
    \A i \in TeardownEntries :
        (i > 1 /\ IsFailedPhase(hist[i - 1])) =>
            /\ ~hist[i].panic
            /\ Fns(hist[i].calls) = TeardownSteps
            /\ Causes(hist[i].ret) =
                 [k \in 1..Len(Failed(hist[i].calls)) |->
                     Failed(hist[i].calls)[k].fn \o " " \o Failed(hist[i].calls)[k].out]

\* the keys a call is about
CallKeys(call) ==
    IF call.fn \in {"rbac.CreateRoles", "rbac.CreateRoleBindings",
                    "rbac.DeleteRoles", "rbac.DeleteRoleBindings"}
    THEN {Key(call.arg[k]) : k \in 1..Len(call.arg)}
    ELSE IF call.arg = NIL THEN {}
    ELSE {Key(call.arg)}

\* the keys the calls of an invocation are about
CallsKeys(calls) == UNION {CallKeys(calls[k]) : k \in 1..Len(calls)}

\* how many invocations of a method the history holds
Invocations(op) == Cardinality({i \in 1..Len(hist) : hist[i].op = op})

\* one pass of the lifecycle so far: Setup and Run were invoked at most once
SinglePass == Invocations("Setup") <= 1 /\ Invocations("Run") <= 1

SetupSteps == <<"configmap.Create", "rbac.CreateRoles", "rbac.CreateRoleBindings">>

SetupEntries == {i \in 1..Len(hist) : hist[i].op = "Setup"}

\* C5: Setup issues its creates in the order result store, roles, role
\* bindings; a create is issued only if every earlier one succeeded; a Setup
\* that returns an error returns the failure of its last issued create
\* prefixed with "setup"; it returns nil only when all three creates
\* succeeded.
C5_SetupOrder ==
    \A i \in SetupEntries :
        LET h == hist[i]
            n == Len(h.calls)
        IN  /\ n \in 1..3
            /\ Fns(h.calls) = SubSeq(SetupSteps, 1, n)
            /\ \A k \in 1..(n - 1) : ~IsFailed(h.calls[k])
            /\ ~h.panic =>
                 /\ h.ret = NoErr <=> (n = 3 /\ Failed(h.calls) = <<>>)
                 /\ h.ret # NoErr =>
                      /\ IsFailed(h.calls[n])
                      /\ h.ret = <<"setup", ": ",
                                   h.calls[n].fn \o " " \o h.calls[n].out>>

\* C5 witness: a Setup that stopped at the failing role create.
C5_Witness ==
    \E i \in SetupEntries :
        /\ Len(hist[i].calls) = 2
        /\ hist[i].calls[2].out = "fail"
        /\ hist[i].ret # NoErr

RunEntries == {i \in 1..Len(hist) : hist[i].op = "Run"}

\* a Run whose create succeeded and whose wait timed out
IsTimedOutRun(h) ==
    /\ h.op = "Run"
    /\ Len(h.calls) = 2
    /\ h.calls[2].out = "timeout"

\* C6: a Run whose wait timed out returns the timeout error prefixed with
\* "run".  When Setup succeeded, then Run timed out, and Teardown is invoked
\* next (no Setup or Run in between), Teardown issues the delete of the
\* created workload, of the created role bindings, of the created roles and
\* of the result store, and returns nil if all four succeed.
C6_TimeoutThenTeardown ==
    /\ \A j \in RunEntries :
          IsTimedOutRun(hist[j]) =>
              hist[j].ret = <<"run", ": ", "job.WaitForJobToFinish timeout">>
    /\ \A i, j, k \in 1..Len(hist) :
          (/\ i < j /\ j < k
           /\ hist[i].op = "Setup" /\ ~hist[i].panic /\ hist[i].ret = NoErr
           /\ IsTimedOutRun(hist[j])
           /\ hist[k].op = "Teardown"
           /\ \A m \in (i + 1)..(k - 1) : m # j => hist[m].op \notin {"Setup", "Run"})
          => LET t == hist[k]
             IN  /\ ~t.panic
                 /\ Fns(t.calls) = TeardownSteps
                 /\ t.calls[1].arg = Stored(hist[j].calls[1].arg)
                 /\ CallKeys(t.calls[2]) = CallKeys(hist[i].calls[3])
                 /\ CallKeys(t.calls[3]) = CallKeys(hist[i].calls[2])
                 /\ CallKeys(t.calls[4]) = CallKeys(hist[i].calls[1])
                 /\ \A m \in 2..4 : CallKeys(t.calls[m]) # {}
                 /\ Failed(t.calls) = <<>> => t.ret = NoErr

\* C6 witness: Setup succeeded, Run timed out, and Teardown deleted all four
\* created objects and returned nil.
C6_Witness ==
    /\ Len(hist) = 3
    /\ hist[1].op = "Setup" /\ hist[1].ret = NoErr
    /\ IsTimedOutRun(hist[2])
    /\ hist[3].op = "Teardown" /\ hist[3].ret = NoErr /\ Len(hist[3].calls) = 4
    /\ Cardinality(created) = 4
    /\ cluster = {}

\* C7: Run issues job.Create exactly once, as its first call; it issues
\* job.WaitForJobToFinish at most once, only after a successful create, on
\* the created workload and with the Timeout of the configuration the
\* instance was constructed from; no call is repeated; a failed create, a
\* timed-out wait and a workload-reported failure are each returned prefixed
\* with "run"; after a successful Run the held workload is the object the
\* wait returned.
C7_RunOnce ==
    /\ \A j \in RunEntries :
          LET h == hist[j]
              n == Len(h.calls)
          IN  /\ n \in 1..2
              /\ Fns(h.calls) = SubSeq(<<"job.Create", "job.WaitForJobToFinish">>, 1, n)
              /\ n = 2 <=> h.calls[1].out = "ok"
              /\ n = 2 => /\ h.calls[2].timeout = cfg.Timeout
                          /\ h.calls[2].arg = Stored(h.calls[1].arg)
              /\ ~h.panic =>
                   /\ h.ret = NoErr <=> Failed(h.calls) = <<>>
                   /\ h.ret # NoErr =>
                        h.ret = <<"run", ": ", h.calls[n].fn \o " " \o h.calls[n].out>>
    /\ (Len(hist) > 0 /\ last.op = "Run" /\ ~last.panic /\ last.ret = NoErr)
          => /\ c.job = last.calls[2].res
             /\ c.job.status = "Complete"

\* C7 witness: a successful Run, invoked after SetTeardownTimeout changed the
\* other timeout, that left the completed workload in the instance.
C7_Witness ==
    /\ Len(hist) = 3
    /\ hist[1].op = "SetTeardownTimeout" /\ c.teardownTimeout # cfg.Timeout
    /\ hist[2].op = "Logs"
    /\ hist[3].op = "Run" /\ hist[3].ret = NoErr /\ c.job.status = "Complete"

SetupCreated(h) ==
    UNION {CallKeys(h.calls[k]) : k \in {m \in 1..Len(h.calls) : ~IsFailed(h.calls[m])}}

LogsEntries == {i \in 1..Len(hist) : hist[i].op = "Logs"}

\* the Run invocations before invocation i
RunsBefore(i) == {j \in 1..(i - 1) : hist[j].op = "Run"}

\* the most recent Run invocation before invocation i
LastRunBefore(i) == CHOOSE j \in RunsBefore(i) : \A m \in RunsBefore(i) : m <= j

\* C8 (as stated): a Logs invoked when no Run has created the workload yet
\* fails with the "no workload" error without calling fetch-logs; once a Run
\* has created the workload, Logs calls fetch-logs.
C8_Original ==
    \A i \in LogsEntries :
        LET h == hist[i]
            workloadCreated == \E j \in RunsBefore(i) : hist[j].calls[1].out = "ok"
        IN  IF workloadCreated
            THEN Fns(h.calls) = <<"job.GetLogs">>
            ELSE h.calls = <<>> /\ h.ret = <<"job is nil">>

\* C8 (amended): Logs fails with the explicit "job is nil" error, without
\* calling fetch-logs, exactly when the held workload reference is nil, that
\* is when the most recent Run failed at its create.  On an instance on which
\* Run was never invoked (freshly constructed, or only set up) Logs calls
\* fetch-logs on the workload description built by the constructor; when the
\* most recent Run created the workload, Logs calls fetch-logs on that
\* workload and returns the outcome of the fetch.
C8_Amended ==
    \A i \in LogsEntries :
        LET h == hist[i]
            noRun == RunsBefore(i) = {}
            r == hist[LastRunBefore(i)]
        IN  IF ~noRun /\ r.calls[1].out # "ok"
            THEN /\ h.before.job = NIL
                 /\ h.calls = <<>>
                 /\ h.ret = <<"job is nil">>
            ELSE /\ Fns(h.calls) = <<"job.GetLogs">>
                 /\ h.calls[1].arg =
                      IF noRun THEN New(run.ns, run.name, cfg).job
                      ELSE IF r.calls[2].out = "ok" THEN r.calls[2].res
                      ELSE Stored(r.calls[1].arg)
                 /\ h.ret = NoErr <=> h.calls[1].out = "ok"
                 /\ h.ret # <<"job is nil">>

\* C8 witness: a Logs on the freshly constructed instance that called
\* fetch-logs, and a Logs after a Run with a failed create that returned
\* "job is nil".
C8_Witness ==
    /\ Len(hist) = 3
    /\ hist[1].op = "Logs" /\ Len(hist[1].calls) = 1
    /\ hist[2].op = "Run" /\ Len(hist[2].calls) = 1
    /\ hist[3].op = "Logs" /\ hist[3].ret = <<"job is nil">>

\* invocations after which the lifecycle is TornDown or Failed
IsTerminal(h) == h.op = "Teardown" \/ IsFailedPhase(h)

CreateFn(op) == IF op = "Setup" THEN "configmap.Create" ELSE "job.Create"

\* C9 (as stated): once Teardown has run or Setup/Run has failed, a later
\* Setup or Run on the instance does not go back to creating objects: it
\* issues no create.
C9_Original ==
    \A i, j \in 1..Len(hist) :
        (i < j /\ IsTerminal(hist[i]) /\ hist[j].op \in {"Setup", "Run"})
            => hist[j].calls = <<>>

\* C9 (amended): the instance holds no lifecycle state and refuses no call.
\* Once Teardown has run or Setup/Run has failed, a later Setup still calls
\* the result-store create first and a later Run still calls the workload
\* create first, and when that create succeeds the object is created in the
\* cluster again.
C9_Amended ==
    \A i, j \in 1..Len(hist) :
        (i < j /\ IsTerminal(hist[i]) /\ hist[j].op \in {"Setup", "Run"})
            => /\ Len(hist[j].calls) >= 1
               /\ hist[j].calls[1].fn = CreateFn(hist[j].op)
               /\ hist[j].calls[1].arg = IF hist[j].op = "Setup"
                                         THEN hist[j].before.resultConfigMap
                                         ELSE hist[j].before.job
               /\ hist[j].calls[1].out = "ok" =>
                     Key(hist[j].calls[1].arg) \in created

\* C9 witness: Setup, a Teardown that deleted everything, and a second Setup
\* that created the three objects again.
C9_Witness ==
    /\ Len(hist) = 3
    /\ hist[1].op = "Setup" /\ hist[1].ret = NoErr
    /\ hist[2].op = "Teardown" /\ hist[2].ret = NoErr
    /\ hist[3].op = "Setup" /\ hist[3].ret = NoErr /\ Len(hist[3].calls) = 3
    /\ Cardinality(cluster) = 3

\* ------------------------------------------------- claims on the validator
\* the validator has returned
Validated == validation.result.tag # "pending"

\* a key that is missing from the validated map, or present with no value
MissingOrEmpty(key) ==
    \/ key \notin DOMAIN validation.params
    \/ validation.params[key] = <<>>

IsPresent(key) == key \in DOMAIN validation.params

\* the validator failed with exactly the error err
FailedWith(err) ==
    /\ validation.result.tag = "error"
    /\ validation.result.err = err

\* C11 (as stated): a map in which a mandatory key is missing or empty fails
\* with that key's own error, the one of the network name when both are.
C11_Original ==
    Validated =>
        /\ MissingOrEmpty(NetworkNameParamName) => FailedWith(ErrInvalidNetworkName)
        /\ (~MissingOrEmpty(NetworkNameParamName)
            /\ MissingOrEmpty(NetworkNamespaceParamName))
              => FailedWith(ErrInvalidNetworkNamespace)

\* C11 (amended): a map that holds at least one key and in which a mandatory
\* key is missing or empty fails with that key's own error, the one of the
\* network name when both are; the map that holds no key fails with the
\* generic invalid-parameters error.
C11_Amended ==
    Validated =>
        IF DOMAIN validation.params = {}
        THEN FailedWith(<<"ErrInvalidParams">>)
        ELSE /\ MissingOrEmpty(NetworkNameParamName)
                  => FailedWith(<<"ErrInvalidNetworkName">>)
             /\ (~MissingOrEmpty(NetworkNameParamName)
                 /\ MissingOrEmpty(NetworkNamespaceParamName))
                  => FailedWith(<<"ErrInvalidNetworkNamespace">>)

\* C11 witness: a map with only a sample duration, both mandatory keys
\* missing, was refused with the error of the network name.
C11_Witness ==
    /\ Validated
    /\ DOMAIN validation.params = {SampleDurationSecondsParamName}
    /\ FailedWith(ErrInvalidNetworkName)

\* a decimal numeral: one or more digits
IsNumeral(str) == str # <<>> /\ \A i \in 1..Len(str) : IsDigit(str[i])

\* the number a numeral of at most seven digits denotes
RECURSIVE NumeralValue(_)
NumeralValue(str) ==
    IF str = <<>> THEN 0
    ELSE 10 * NumeralValue(SubSeq(str, 1, Len(str) - 1)) + DigitValue(str[Len(str)])

\* a numeric key that is absent or holds a numeral within the integer range
NumericOk(key) ==
    \/ ~IsPresent(key)
    \/ /\ IsNumeral(validation.params[key])
       /\ NumeralValue(validation.params[key]) <= IntMax

MandatoryOk ==
    /\ ~MissingOrEmpty(NetworkNameParamName)
    /\ ~MissingOrEmpty(NetworkNamespaceParamName)

NumericsOk ==
    /\ NumericOk(SampleDurationSecondsParamName)
    /\ NumericOk(DesiredMaxLatencyMillisecondsParamName)

\* the four illegal combinations of the node pair
SourceOnly == IsPresent(SourceNodeNameParamName) /\ ~IsPresent(TargetNodeNameParamName)

TargetOnly == ~IsPresent(SourceNodeNameParamName) /\ IsPresent(TargetNodeNameParamName)

EmptySource ==
    /\ IsPresent(SourceNodeNameParamName) /\ IsPresent(TargetNodeNameParamName)
    /\ validation.params[SourceNodeNameParamName] = <<>>

EmptyTarget ==
    /\ IsPresent(SourceNodeNameParamName) /\ IsPresent(TargetNodeNameParamName)
    /\ validation.params[TargetNodeNameParamName] = <<>>

PairIllegal == SourceOnly \/ TargetOnly \/ EmptySource \/ EmptyTarget

\* what the claim on the node pair says of a validated map
PairRule ==
    /\ validation.result.tag = "plan" <=> ~PairIllegal
    /\ PairIllegal => FailedWith(<<"ErrIllegalSourceAndTargetNodesCombination">>)
    /\ (~PairIllegal /\ IsPresent(SourceNodeNameParamName)) =>
          /\ validation.result.plan.SourceNodeName =
                validation.params[SourceNodeNameParamName]
          /\ validation.result.plan.TargetNodeName =
                validation.params[TargetNodeNameParamName]

\* C12 (as stated): every map with valid mandatory keys is accepted exactly
\* when the node pair is legal, and fails with the pair error otherwise.
C12_Original == (Validated /\ MandatoryOk) => PairRule

\* C12 (amended): every map with valid mandatory keys and with valid or
\* absent optional numeric keys is accepted exactly when source node and
\* target node are both absent or both present and non-empty (both values
\* are then in the plan); source only, target only, an empty source with a
\* target and a source with an empty target all fail with the same
\* illegal-pair-combination error.
C12_Amended == (Validated /\ MandatoryOk /\ NumericsOk) => PairRule

\* C12 witness: a source with an empty target was refused with the pair
\* error.
C12_Witness ==
    /\ Validated /\ MandatoryOk /\ NumericsOk
    /\ EmptyTarget /\ ~EmptySource
    /\ FailedWith(ErrIllegalSourceAndTargetNodesCombination)

IsNumericError(err) == Len(err) = 3 /\ err[3] \in {"strconv.ErrSyntax", "strconv.ErrRange"}

\* C13: the validator reports the single error of the earliest failing check,
\* in the order: no parameters, mandatory keys, numeric keys, node pair; a map
\* with no defect yields a plan.
C13_ValidationOrder ==
    Validated =>
        IF DOMAIN validation.params = {} THEN FailedWith(<<"ErrInvalidParams">>)
        ELSE IF ~MandatoryOk
        THEN \/ FailedWith(<<"ErrInvalidNetworkName">>)
             \/ FailedWith(<<"ErrInvalidNetworkNamespace">>)
        ELSE IF ~NumericsOk
        THEN validation.result.tag = "error" /\ IsNumericError(validation.result.err)
        ELSE IF PairIllegal
        THEN FailedWith(<<"ErrIllegalSourceAndTargetNodesCombination">>)
        ELSE validation.result.tag = "plan"

\* C13 witness: a map with a missing mandatory key, a non-numeric duration
\* and a lone source node was refused with the error of the mandatory key;
\* with the mandatory keys valid, a numeric defect wins over a pair defect.
C13_Witness ==
    /\ Validated
    /\ MandatoryOk /\ ~NumericsOk /\ PairIllegal
    /\ IsPresent(SampleDurationSecondsParamName)
    /\ validation.params[SampleDurationSecondsParamName] = <<"3", "r">>
    /\ SourceOnly
    /\ IsNumericError(validation.result.err)

\* C14: in every plan, a numeric field whose key is absent has its default
\* and one whose key is present has exactly the number its value denotes,
\* whatever the other field is.
C14_Defaults ==
    (Validated /\ validation.result.tag = "plan") =>
        /\ validation.result.plan.SampleDurationSeconds =
              IF IsPresent(SampleDurationSecondsParamName)
              THEN NumeralValue(validation.params[SampleDurationSecondsParamName])
              ELSE DefaultSampleDurationSeconds
        /\ validation.result.plan.DesiredMaxLatencyMilliseconds =
              IF IsPresent(DesiredMaxLatencyMillisecondsParamName)
              THEN NumeralValue(validation.params[DesiredMaxLatencyMillisecondsParamName])
              ELSE DefaultDesiredMaxLatencyMilliseconds

\* C14 witness: only the mandatory keys and the maximal latency are given; the
\* plan has the default sample duration and the given latency.
C14_Witness ==
    /\ Validated
    /\ DOMAIN validation.params =
          {NetworkNameParamName, NetworkNamespaceParamName,
           DesiredMaxLatencyMillisecondsParamName}
    /\ validation.params[DesiredMaxLatencyMillisecondsParamName] = <<"6", "0">>
    /\ validation.result.tag = "plan"
    /\ validation.result.plan.SampleDurationSeconds = DefaultSampleDurationSeconds
    /\ validation.result.plan.DesiredMaxLatencyMilliseconds = 60

\* the numeric keys in the order they are checked
NumericKeys == <<SampleDurationSecondsParamName, DesiredMaxLatencyMillisecondsParamName>>

After(i) == IF i = Len(hist) THEN c ELSE hist[i + 1].before

SetTimeoutEntriesBefore(i) ==
    {j \in 1..(i - 1) : hist[j].op = "SetTeardownTimeout"}

\* the teardown timeout in force when invocation i starts: the argument of
\* the latest SetTeardownTimeout before it, five minutes when there is none
TeardownTimeoutAt(i) ==
    IF SetTimeoutEntriesBefore(i) = {} THEN 5 * 60 * 1000
    ELSE hist[CHOOSE j \in SetTimeoutEntriesBefore(i) :
                 \A k \in SetTimeoutEntriesBefore(i) : k <= j].arg

\* C16: the teardown timeout is five minutes after construction;
\* SetTeardownTimeout(d) sets it to d and changes nothing else, no other
\* method changes it; the workload delete-and-wait of a Teardown is given the
\* value set last; the execution timeout is the configured one at all times.
C16_TeardownTimeout ==
    /\ c.jobTimeout = cfg.Timeout
    /\ c.teardownTimeout = TeardownTimeoutAt(Len(hist) + 1)
    /\ \A i \in 1..Len(hist) :
          /\ hist[i].before.jobTimeout = cfg.Timeout
          /\ hist[i].op = "SetTeardownTimeout" =>
                After(i) = [hist[i].before EXCEPT !.teardownTimeout = hist[i].arg]
          /\ hist[i].op # "SetTeardownTimeout" =>
                After(i).teardownTimeout = hist[i].before.teardownTimeout
          /\ hist[i].op = "Teardown" =>
                \A m \in 1..Len(hist[i].calls) :
                    hist[i].calls[m].fn = "job.DeleteAndWait" =>
                        hist[i].calls[m].timeout = TeardownTimeoutAt(i)

\* C16 witness: the teardown timeout was set to one second, a Run created the
\* workload, and the Teardown deleted the workload and waited one second.
C16_Witness ==
    /\ Len(hist) = 3
    /\ hist[1].op = "SetTeardownTimeout" /\ hist[1].arg = 1000
    /\ hist[2].op = "Run"
    /\ hist[3].op = "Teardown"
    /\ hist[3].calls[1].fn = "job.DeleteAndWait"
    /\ hist[3].calls[1].timeout = 1000
    /\ c.jobTimeout = cfg.Timeout

\* ------------------------------------------------------ claims on Results
ResultsEntries == {i \in 1..Len(hist) : hist[i].op = "Results"}

\* the address of the result store the checkup held when invocation i began
HeldStoreKey(i) ==
    [kind |-> "ConfigMap", ns |-> hist[i].before.resultConfigMap.ns,
     name |-> hist[i].before.resultConfigMap.name]

\* invocation i made exactly one read, of the held result store, and returned
\* what the read gave: the contents of that moment, or the read failure
ReadsOnce(i) ==
    /\ ~hist[i].panic
    /\ Len(hist[i].calls) = 1
    /\ hist[i].calls[1].fn = "results.ReadFromConfigMap"
    /\ hist[i].calls[1].arg = HeldStoreKey(i)
    /\ IF hist[i].calls[1].out = "ok"
       THEN hist[i].ret = NoErr /\ hist[i].val = hist[i].data
       ELSE hist[i].ret = CallErr("results.ReadFromConfigMap", hist[i].calls[1].out)

\* two Results that read successfully return the same contents when no write
\* separates them and different contents when one write does
NoCache ==
    \A i, j \in ResultsEntries :
        (i < j /\ hist[i].ret = NoErr /\ hist[j].ret = NoErr
         /\ ~hist[i].panic /\ ~hist[j].panic) =>
            /\ hist[j].writes = hist[i].writes => hist[j].val = hist[i].val
            /\ hist[j].writes = hist[i].writes + 1 => hist[j].val # hist[i].val

CallsWith(i, fn, out) ==
    {m \in 1..Len(hist[i].calls) :
        hist[i].calls[m].fn = fn /\ hist[i].calls[m].out = out}

\* err occurs in ret as a run of consecutive tokens
Contains(ret, err) ==
    \E k \in 0..(Len(ret) - Len(err)) : SubSeq(ret, k + 1, k + Len(err)) = err

\* invocation i returned an error that reports the expired wait: with the
\* prefix "run" for Run, inside the aggregate with the prefix "teardown" for
\* Teardown
ReportsExpiredWait(i) ==
    /\ hist[i].ret # NoErr
    /\ IF hist[i].op = "Run"
       THEN hist[i].ret = <<"run", ": ">> \o CallErr("job.WaitForJobToFinish", "timeout")
       ELSE /\ SubSeq(hist[i].ret, 1, 2) = <<"teardown", ": ">>
            /\ Contains(hist[i].ret, CallErr("job.DeleteAndWait", "timeout") \o <<"\n">>)

\* the invocations whose wait expired
ExpiredWaits ==
    {i \in 1..Len(hist) :
        \/ hist[i].op = "Run" /\ CallsWith(i, "job.WaitForJobToFinish", "timeout") # {}
        \/ hist[i].op = "Teardown" /\ CallsWith(i, "job.DeleteAndWait", "timeout") # {}}

Built == IF hist = <<>> THEN c ELSE hist[1].before

\* the name every object is to agree on
ResultStoreName == run.name \o "-results"

\* the values of the environment variable name in the workload
EnvValues(job, name) == {job.Env[k].Value : k \in {m \in 1..Len(job.Env) : job.Env[m].Name = name}}

\* C19: whatever the run name and namespace, the result store New() builds
\* and Setup() creates is named <run>-results in the run's namespace; the
\* writer role has one rule, with the verbs get, update, patch and that name
\* as its only resource name; the workload's RESULT_CONFIGMAP_NAME is that
\* name; Results() reads that name; the role binding refers to the writer
\* role by its name, in the role's namespace.
C19_NamesAgree ==
    /\ Built.resultConfigMap.name = ResultStoreName
    /\ Built.resultConfigMap.ns = run.ns
    /\ Len(Built.roles) = 1
    /\ Built.roles[1].ns = run.ns
    /\ Len(Built.roles[1].Rules) = 1
    /\ Built.roles[1].Rules[1].Verbs = <<"get", "update", "patch">>
    /\ Built.roles[1].Rules[1].ResourceNames = <<ResultStoreName>>
    /\ EnvValues(Built.job, "RESULT_CONFIGMAP_NAME") = {ResultStoreName}
    /\ Len(Built.roleBindings) = 1
    /\ Built.roleBindings[1].RoleRef.Kind = "Role"
    /\ Built.roleBindings[1].RoleRef.Name = Built.roles[1].name
    /\ Built.roleBindings[1].ns = Built.roles[1].ns
    /\ \A i \in 1..Len(hist) :
          /\ (hist[i].op = "Setup" /\ hist[i].before.resultConfigMap # NIL) =>
                /\ hist[i].calls[1].fn = "configmap.Create"
                /\ hist[i].calls[1].arg.name = ResultStoreName
                /\ hist[i].calls[1].arg.ns = run.ns
          /\ (hist[i].op = "Results" /\ ~hist[i].panic) =>
                /\ hist[i].calls[1].arg.name = ResultStoreName
                /\ hist[i].calls[1].arg.ns = run.ns

\* C19 witness: for the run "a" of the namespace "ns-2", Setup() created the
\* result store "a-results" and Results() read it.
C19_Witness ==
    /\ run = [ns |-> "ns-2", name |-> "a"]
    /\ Len(hist) = 2
    /\ hist[1].op = "Setup" /\ hist[1].ret = NoErr
    /\ hist[1].calls[1].arg.name = "a-results"
    /\ hist[2].op = "Results" /\ hist[2].ret = NoErr
    /\ hist[2].calls[1].arg = [kind |-> "ConfigMap", ns |-> "ns-2", name |-> "a-results"]
    /\ c.roles[1].Rules[1].ResourceNames = <<"a-results">>

\* C20: the deadline of the workload New() built, in milliseconds, is the
\* execution timeout of the configuration, and so is the timeout every Run()
\* gives the completion wait.
C20_DeadlineIsTimeout ==
    /\ Built.job.ActiveDeadlineSeconds * 1000 = cfg.Timeout
    /\ \A i \in 1..Len(hist) :
          hist[i].op = "Run" =>
              \A m \in 1..Len(hist[i].calls) :
                  hist[i].calls[m].fn = "job.WaitForJobToFinish" =>
                      hist[i].calls[m].timeout = cfg.Timeout

\* ------------------------------------- claims on the workload reference
\* the calls of invocation i that delete the workload and wait
DeleteAndWaitCalls(i) ==
    {m \in 1..Len(hist[i].calls) : hist[i].calls[m].fn = "job.DeleteAndWait"}

\* the Run() invocations before invocation i whose create step failed
FailedCreateRunsBefore(i) ==
    {j \in 1..(i - 1) :
        /\ hist[j].op = "Run"
        /\ hist[j].calls[1].fn = "job.Create"
        /\ hist[j].calls[1].out \notin {"ok", "panic"}}

\* the checkup when invocation i begins (the current one for i past the end)
Before(i) == IF i = Len(hist) + 1 THEN c ELSE hist[i].before

\* C21: a Teardown() issues no workload delete-and-wait exactly when the held
\* workload reference is nil, and otherwise issues it first and once, for
\* the held workload; the held reference is nil exactly after a Run() whose
\* create step failed: it is not nil on an instance that never ran, and after
\* a Run() that failed in the wait step it is the created workload.
C21_SkipOnlyOnNil ==
    /\ \A i \in TeardownEntries :
          IF hist[i].before.job = NIL
          THEN DeleteAndWaitCalls(i) = {}
          ELSE /\ DeleteAndWaitCalls(i) = {1}
               /\ hist[i].calls[1].arg = hist[i].before.job
    /\ \A i \in 1..(Len(hist) + 1) :
          Before(i).job = NIL <=> FailedCreateRunsBefore(i) # {}
    /\ \A j \in 1..Len(hist) :
          (/\ hist[j].op = "Run"
           /\ Len(hist[j].calls) = 2
           /\ hist[j].calls[2].out # "ok") =>
              /\ After(j).job = Stored(hist[j].calls[1].arg)
              /\ After(j).job # NIL

\* C21 witness: a Teardown() on an instance that never ran issued the
\* delete-and-wait; then a Run() failed at its create step and the next
\* Teardown() issued none.
C21_Witness ==
    /\ Len(hist) = 3
    /\ hist[1].op = "Teardown" /\ DeleteAndWaitCalls(1) = {1}
    /\ hist[2].op = "Run" /\ hist[2].calls[1].out = "fail"
    /\ hist[3].op = "Teardown" /\ DeleteAndWaitCalls(3) = {}
    /\ hist[3].before.job = NIL

\* what invocation i asked the cluster to delete, in order
DeleteRequests(i) ==
    [m \in 1..Len(hist[i].calls) |->
        [fn |-> hist[i].calls[m].fn, arg |-> hist[i].calls[m].arg]]

\* C22: a Teardown() leaves the checkup as it found it, whatever its steps
\* gave; two Teardown() in a row ask for the same deletions, with the same
\* timeout for the workload.
C22_TeardownKeepsFields ==
    /\ \A i \in TeardownEntries : After(i) = hist[i].before
    /\ \A i \in TeardownEntries :
          (i + 1 \in TeardownEntries) =>
              /\ DeleteRequests(i + 1) = DeleteRequests(i)
              /\ \A m \in DeleteAndWaitCalls(i) :
                    hist[i + 1].calls[m].timeout = hist[i].calls[m].timeout

\* C22 witness: a Teardown() some of whose steps failed was followed by a
\* Teardown() that asked for the same four deletions.
C22_Witness ==
    /\ Len(hist) >= 2
    /\ hist[1].op = "Teardown" /\ hist[1].ret # NoErr
    /\ hist[2].op = "Teardown"
    /\ Len(hist[1].calls) = 4
    /\ DeleteRequests(2) = DeleteRequests(1)
    /\ c = hist[1].before

====
